---- MODULE Spec2Model ----
(***************************************************************************)
(* The command-execution engine of the RESP key/value server in            *)
(* src/src/main.rs: one thread per connection (handle_connection), one     *)
(* Mutex around the keyspace HashMap and one Condvar for BLPOP waiters.    *)
(*                                                                         *)
(* Every match arm of handle_connection takes the mutex at its first line  *)
(* and drops it when the arm ends, so an arm is one atomic action here;    *)
(* the only place a thread gives the mutex up in the middle of an arm is   *)
(* cv.wait / cv.wait_timeout inside BLPOP.  The states of the model are    *)
(* therefore exactly the states in which the mutex is free.                *)
(*                                                                         *)
(* Time is a global integer clock (Instant::now()); durations (PX and the  *)
(* BLPOP timeout) are counted in ticks of that clock.                      *)
(***************************************************************************)
EXTENDS Integers, Sequences, FiniteSets, TLC

\* ------------------------------------------------------------- bounds
\* the client connections accepted
NumConns == 2
\* the longest list in the single-client list session (SpecList)
MaxLen == 3
\* the longest list where several clients share the keyspace
MaxQueue == 2
\* the last reading of the clock
MaxTime == 2
\* the longest list and the last reading of the clock where every client sends
\* every command (SpecMix)
MixLen == 1
MixTime == 1

Conns == 1..NumConns
Keys == {"k", "q"}
Vals == {"a", "b"}

SeqsUpTo(S, n) == UNION {[1..m -> S] : m \in 0..n}

\* ------------------------------------------------------------- data model
\* Option<T>
None == <<>>
Some(x) == <<x>>

\* enum RedisValue
RString(s) == [tag |-> "String", s |-> s]
RList(list) == [tag |-> "List", list |-> list]

\* struct Entry
Entry(value, created_at, expires_in) ==
    [value |-> value, created_at |-> created_at, expires_in |-> expires_in]

\* HashMap<String, Entry>: a finite partial function
EmptyMap == [x \in {} |-> 0]
\* Mutant of Insert: an entry already at the key is kept.
InsertIfAbsent(map, key, entry) ==
    [x \in (DOMAIN map) \cup {key} |-> IF x \in DOMAIN map THEN map[x] ELSE entry]

Insert(map, key, entry) ==
    [x \in (DOMAIN map) \cup {key} |-> IF x = key THEN entry ELSE map[x]]
Remove(map, key) == [x \in (DOMAIN map) \ {key} |-> map[x]]
IsList(map, key) == key \in DOMAIN map /\ map[key].value.tag = "List"
IsString(map, key) == key \in DOMAIN map /\ map[key].value.tag = "String"

\* ------------------------------------------------------------- RESP replies
Simple(s) == [t |-> "simple", s |-> s]
Bulk(s) == [t |-> "bulk", s |-> s]
Integer(n) == [t |-> "integer", n |-> n]
Array(elems) == [t |-> "array", elems |-> elems]
NullBulk == [t |-> "nullbulk"]
NullArray == [t |-> "nullarray"]
WrongType == [t |-> "error", s |-> "WRONGTYPE"]
NoReply == [t |-> "none"]
BulkAll(list) == [i \in 1..Len(list) |-> Bulk(list[i])]

\* ------------------------------------------------------------- state
VARIABLES
    db,         \* the keyspace behind the mutex
    poisoned,   \* the mutex's poison flag: a thread panicked while holding it
    now,        \* the monotonic clock
    pc,         \* per connection: "read", "wait", "done", "failed", "panicked"
    waiters,    \* the threads inside cv.wait: their BLPOP context and pending wake-up
    last,       \* the step just taken: command, arguments, reply, outcome
    seen        \* history, per key.  SpecGet: what the last GET that replied a value
                \* saw, since the last SET of the key.  SpecPush: the length the
                \* list had before the concurrent pushes and their replies.

vars == <<db, poisoned, now, pc, waiters, last, seen>>

Step(op, c, keys, args, reply, out) ==
    [op |-> op, conn |-> c, keys |-> keys, args |-> args, reply |-> reply, out |-> out]

Init ==
    /\ db = EmptyMap
    /\ poisoned = FALSE
    /\ now = 0
    /\ pc = [c \in Conns |-> "read"]
    /\ waiters = EmptyMap
    /\ last = Step("INIT", 0, <<>>, <<>>, NoReply, "none")
    /\ seen = [k \in Keys |-> None]

\* stream.write_all(reply)?  : on Ok the arm goes on (to `after`), on Err
\* handle_connection returns the error and the thread ends.
Write(c, op, keys, args, reply, ok, after) ==
    /\ last' = Step(op, c, keys, args, reply, IF ok THEN "replied" ELSE "io_error")
    /\ pc' = [pc EXCEPT ![c] = IF ok THEN after ELSE "failed"]

\* A panic of the connection's thread: nothing is written.
Panic(c, op, keys, args) ==
    /\ last' = Step(op, c, keys, args, NoReply, "panic")
    /\ pc' = [pc EXCEPT ![c] = "panicked"]

\* db.lock().unwrap() on a poisoned mutex: the thread panics before the arm runs.
LockPoisoned(c, op, keys, args) ==
    /\ Panic(c, op, keys, args)
    /\ UNCHANGED <<db, poisoned, now, waiters>>

\* cv.notify_all()
NotifyAll(w) == [x \in DOMAIN w |-> [w[x] EXCEPT !.notified = TRUE]]

\* ------------------------------------------------------------- commands
Ping(c, ok) ==
    /\ pc[c] = "read"
    /\ Write(c, "PING", <<>>, <<>>, Simple("PONG"), ok, "read")
    /\ UNCHANGED <<db, poisoned, now, waiters>>

Echo(c, content, ok) ==
    /\ pc[c] = "read"
    /\ Write(c, "ECHO", <<>>, <<content>>, Bulk(content), ok, "read")
    /\ UNCHANGED <<db, poisoned, now, waiters>>

Set(c, key, value, px, ok) ==
    /\ pc[c] = "read"
    /\ IF poisoned THEN LockPoisoned(c, "SET", <<key>>, <<value>>)
       ELSE /\ db' = Insert(db, key, Entry(RString(value), now, px))
            /\ Write(c, "SET", <<key>>, <<value>>, Simple("OK"), ok, "read")
            /\ UNCHANGED <<poisoned, now, waiters>>

\* Mutant of IsExpired: the entry expires as soon as its age reaches the duration.
IsExpiredAtHorizon(map, key, t) ==
    /\ key \in DOMAIN map
    /\ map[key].expires_in # None
    /\ t - map[key].created_at >= map[key].expires_in[1]

\* entry.created_at.elapsed() > duration
IsExpired(map, key, t) ==
    /\ key \in DOMAIN map
    /\ map[key].expires_in # None
    /\ t - map[key].created_at > map[key].expires_in[1]

GetReply(map, key) ==
    IF key \in DOMAIN map
    THEN IF map[key].value.tag = "String" THEN Bulk(map[key].value.s) ELSE WrongType
    ELSE NullBulk

Get(c, key, ok) ==
    /\ pc[c] = "read"
    /\ IF poisoned THEN LockPoisoned(c, "GET", <<key>>, <<>>)
       ELSE LET map == IF IsExpired(db, key, now) THEN Remove(db, key) ELSE db
            IN  /\ db' = map
                /\ Write(c, "GET", <<key>>, <<>>, GetReply(map, key), ok, "read")
                /\ UNCHANGED <<poisoned, now, waiters>>

\* Mutant of OrInsertList: map.insert in place of map.entry(key).or_insert.
InsertEmptyList(map, key, t) == Insert(map, key, [value |-> [tag |-> "List", list |-> <<>>],
                                                  created_at |-> t, expires_in |-> <<>>])

\* Mutant of OrInsertList: a scalar found at the key gives way to an empty list.
OrInsertListOverScalar(map, key, t) ==
    IF IsList(map, key) THEN map ELSE Insert(map, key, Entry(RList(<<>>), t, None))

\* map.entry(key).or_insert(Entry { List(Vec::new()), Instant::now(), None })
OrInsertList(map, key, t) ==
    IF key \in DOMAIN map THEN map ELSE Insert(map, key, Entry(RList(<<>>), t, None))

\* Mutant of SetList: the list is stored with an expiry.
SetListWithExpiry(map, key, list) ==
    [map EXCEPT ![key].value = [tag |-> "List", list |-> list], ![key].expires_in = <<0>>]

\* entry.value = List(list), in place
SetList(map, key, list) == [map EXCEPT ![key].value = RList(list)]

\* Mutant of PushRight: a lost update, the push lands on the slot of the last element.
PushRightLostUpdate(list, values) ==
    IF list = <<>> THEN values ELSE SubSeq(list, 1, Len(list) - 1) \o values

\* for val in values { list.push(val) }
PushRight(list, values) == list \o values

\* Mutant of PushLeft: the values are put in front of the list as a block.
PushLeftBlock(list, values) == values \o list

\* for val in values { list.insert(0, val) }
RECURSIVE PushLeft(_, _)
PushLeft(list, values) ==
    IF values = <<>> THEN list
    ELSE PushLeft(<<Head(values)>> \o list, Tail(values))

\* The shared body of the RPUSH and LPUSH arms; `pushed` is the list after the loop.
PushArm(c, op, key, values, pushed, ok) ==
    LET map == OrInsertList(db, key, now)
    IN  IF map[key].value.tag = "List"
        THEN /\ db' = SetList(map, key, pushed)
             /\ Write(c, op, <<key>>, values, Integer(Len(pushed)), ok, "read")
             \* write_all(..)? returns before cv.notify_all() when the write fails
             /\ waiters' = IF ok THEN NotifyAll(waiters) ELSE waiters
             /\ UNCHANGED <<poisoned, now>>
        ELSE /\ db' = map
             /\ Write(c, op, <<key>>, values, WrongType, ok, "read")
             /\ UNCHANGED <<poisoned, now, waiters>>

ListOrEmpty(map, key) == IF IsList(map, key) THEN map[key].value.list ELSE <<>>

Rpush(c, key, values, ok) ==
    /\ pc[c] = "read"
    /\ IF poisoned THEN LockPoisoned(c, "RPUSH", <<key>>, values)
       ELSE PushArm(c, "RPUSH", key, values, PushRight(ListOrEmpty(db, key), values), ok)

Lpush(c, key, values, ok) ==
    /\ pc[c] = "read"
    /\ IF poisoned THEN LockPoisoned(c, "LPUSH", <<key>>, values)
       ELSE PushArm(c, "LPUSH", key, values, PushLeft(ListOrEmpty(db, key), values), ok)

\* i64::clamp(self, min, max): panics when min > max
ClampPanics(lo, hi) == lo > hi
Clamp(x, lo, hi) == IF x < lo THEN lo ELSE IF x > hi THEN hi ELSE x

\* Mutant of StopIdx: a negative stop is not counted from the end.
StopIdxNoWrap(len, stop) ==
    IF stop < 0 THEN 0 ELSE IF stop > len - 1 THEN len - 1 ELSE stop

\* Index normalisation of LRANGE over a list.
StartIdx(len, start) == Clamp(IF start < 0 THEN len + start ELSE start, 0, len)
StopIdx(len, stop) == Clamp(IF stop < 0 THEN len + stop ELSE stop, 0, len - 1)
LrangePanics(list) == ClampPanics(0, Len(list)) \/ ClampPanics(0, Len(list) - 1)
LrangeElems(list, start, stop) ==
    LET len == Len(list)
        start_idx == StartIdx(len, start)
        stop_idx == StopIdx(len, stop)
    IN  IF start_idx >= len \/ start_idx > stop_idx THEN <<>>
        ELSE SubSeq(list, start_idx + 1, stop_idx + 1)

Lrange(c, key, start, stop, ok) ==
    /\ pc[c] = "read"
    /\ IF poisoned THEN LockPoisoned(c, "LRANGE", <<key>>, <<start, stop>>)
       ELSE IF key \notin DOMAIN db
       THEN /\ Write(c, "LRANGE", <<key>>, <<start, stop>>, Array(<<>>), ok, "read")
            /\ UNCHANGED <<db, poisoned, now, waiters>>
       ELSE IF db[key].value.tag # "List"
       THEN /\ Write(c, "LRANGE", <<key>>, <<start, stop>>, WrongType, ok, "read")
            /\ UNCHANGED <<db, poisoned, now, waiters>>
       ELSE IF LrangePanics(db[key].value.list)
       THEN \* the panic unwinds through the MutexGuard, which poisons the mutex
            /\ Panic(c, "LRANGE", <<key>>, <<start, stop>>)
            /\ poisoned' = TRUE
            /\ UNCHANGED <<db, now, waiters>>
       ELSE /\ Write(c, "LRANGE", <<key>>, <<start, stop>>,
                     Array(BulkAll(LrangeElems(db[key].value.list, start, stop))),
                     ok, "read")
            /\ UNCHANGED <<db, poisoned, now, waiters>>

LlenReply(map, key) ==
    IF key \in DOMAIN map
    THEN IF map[key].value.tag = "List" THEN Integer(Len(map[key].value.list))
         ELSE WrongType
    ELSE Integer(0)

Llen(c, key, ok) ==
    /\ pc[c] = "read"
    /\ IF poisoned THEN LockPoisoned(c, "LLEN", <<key>>, <<>>)
       ELSE /\ Write(c, "LLEN", <<key>>, <<>>, LlenReply(db, key), ok, "read")
            /\ UNCHANGED <<db, poisoned, now, waiters>>

Min(a, b) == IF a < b THEN a ELSE b

\* Mutant of LpopTake: the count is ignored, one element is taken.
LpopTakeOne(list, count) == IF list = <<>> THEN 0 ELSE 1

\* The number of elements the LPOP arm removes from `list`.
LpopTake(list, count) ==
    IF count = None THEN (IF list = <<>> THEN 0 ELSE 1) ELSE Min(count[1], Len(list))

LpopReply(map, key, count) ==
    IF key \notin DOMAIN map THEN NullBulk
    ELSE IF map[key].value.tag # "List" THEN WrongType
    ELSE LET list == map[key].value.list
             take == LpopTake(list, count)
         IN  IF count = None
             THEN IF list = <<>> THEN NullBulk ELSE Bulk(list[1])
             ELSE IF take = 0 THEN NullArray
                  ELSE Array(BulkAll(SubSeq(list, 1, take)))

LpopMap(map, key, count) ==
    IF IsList(map, key)
    THEN LET list == map[key].value.list
         IN  SetList(map, key, SubSeq(list, LpopTake(list, count) + 1, Len(list)))
    ELSE map

Lpop(c, key, count, ok) ==
    /\ pc[c] = "read"
    /\ IF poisoned THEN LockPoisoned(c, "LPOP", <<key>>, count)
       ELSE /\ db' = LpopMap(db, key, count)
            /\ Write(c, "LPOP", <<key>>, count, LpopReply(db, key, count), ok, "read")
            /\ UNCHANGED <<poisoned, now, waiters>>

\* ------------------------------------------------------------- BLPOP
\* for key in &keys { if let Some(Entry { value: List(list), .. }) = map.get_mut(key)
\*                    { if !list.is_empty() { ... return } } }
\* The index in `keys`, from i on, of the first key holding a non-empty list; 0 if none.
RECURSIVE ScanFrom(_, _, _)
ScanFrom(map, keys, i) ==
    IF i > Len(keys) THEN 0
    ELSE IF IsList(map, keys[i]) /\ map[keys[i]].value.list # <<>> THEN i
    ELSE ScanFrom(map, keys, i + 1)

\* Mutant of Scan: the keys are tried from the last to the first.
ScanBackwards(map, keys) ==
    LET R == {i \in 1..Len(keys) : /\ keys[i] \in DOMAIN map
                                   /\ map[keys[i]].value.tag = "List"
                                   /\ map[keys[i]].value.list # <<>>}
    IN  IF R = {} THEN 0 ELSE CHOOSE i \in R : \A j \in R : j <= i

Scan(map, keys) == ScanFrom(map, keys, 1)

\* Mutant of TimedOut: a timeout of 0 is a deadline like any other.
TimedOutAtZero(timeout, start_time, t) == t - start_time >= timeout

\* elapsed >= timeout_duration, with elapsed = start_time.elapsed()
TimedOut(timeout, start_time, t) == timeout > 0 /\ t - start_time >= timeout

\* One turn of the loop of the BLPOP arm, run with the mutex held.
BlpopLoop(c, op, keys, timeout, start_time, ok) ==
    LET i == Scan(db, keys)
    IN  IF i > 0
        THEN LET key == keys[i]
                 list == db[key].value.list
             IN  /\ db' = SetList(db, key, Tail(list))
                 \* `return Ok(())` leaves handle_connection: the connection ends
                 /\ Write(c, op, keys, <<timeout>>,
                          Array(<<Bulk(key), Bulk(Head(list))>>), ok, "done")
                 /\ waiters' = Remove(waiters, c)
                 /\ UNCHANGED <<poisoned, now>>
        ELSE IF TimedOut(timeout, start_time, now)
        THEN /\ Write(c, op, keys, <<timeout>>, NullArray, ok, "done")
             /\ waiters' = Remove(waiters, c)
             /\ UNCHANGED <<db, poisoned, now>>
        ELSE \* cv.wait(map) / cv.wait_timeout(map, remaining): the mutex is released
             /\ last' = Step(op, c, keys, <<timeout>>, NoReply, "blocked")
             /\ pc' = [pc EXCEPT ![c] = "wait"]
             /\ waiters' = Insert(waiters, c,
                                  [keys |-> keys, timeout |-> timeout,
                                   start_time |-> start_time, notified |-> FALSE])
             /\ UNCHANGED <<db, poisoned, now>>

\* Duration::from_secs_f64(timeout) panics on a negative timeout
FromSecsPanics(timeout) == timeout < 0

Blpop(c, keys, timeout, ok) ==
    /\ pc[c] = "read"
    /\ IF poisoned THEN LockPoisoned(c, "BLPOP", keys, <<timeout>>)
       ELSE IF FromSecsPanics(timeout)
       THEN /\ Panic(c, "BLPOP", keys, <<timeout>>)
            /\ poisoned' = TRUE
            /\ UNCHANGED <<db, now, waiters>>
       ELSE BlpopLoop(c, "BLPOP", keys, timeout, now, ok)

\* Mutant of Wake: when the write of the reply fails the element stays in its list.
WakeRequeue(c, op, ok) ==
    LET w == waiters[c]
        i == Scan(db, w.keys)
    IN  IF poisoned
        THEN /\ Panic(c, op, w.keys, <<w.timeout>>)
             /\ waiters' = Remove(waiters, c)
             /\ UNCHANGED <<db, poisoned, now>>
        ELSE IF ~ok /\ i > 0
        THEN /\ Write(c, op, w.keys, <<w.timeout>>,
                      Array(<<Bulk(w.keys[i]), Bulk(Head(db[w.keys[i]].value.list))>>),
                      FALSE, "done")
             /\ waiters' = Remove(waiters, c)
             /\ UNCHANGED <<db, poisoned, now>>
        ELSE BlpopLoop(c, op, w.keys, w.timeout, w.start_time, ok)

\* The return of cv.wait / cv.wait_timeout: the mutex is taken again, .unwrap()
\* panics if it is poisoned, otherwise the loop runs once more.
Wake(c, op, ok) ==
    LET w == waiters[c]
    IN  IF poisoned
        THEN /\ Panic(c, op, w.keys, <<w.timeout>>)
             /\ waiters' = Remove(waiters, c)
             /\ UNCHANGED <<db, poisoned, now>>
        ELSE BlpopLoop(c, op, w.keys, w.timeout, w.start_time, ok)

\* woken by a notify_all
WakeNotified(c, ok) ==
    /\ c \in DOMAIN waiters
    /\ waiters[c].notified
    /\ Wake(c, "WAKE", ok)

\* wait_timeout returns because `remaining` has elapsed
WakeTimeout(c, ok) ==
    /\ c \in DOMAIN waiters
    /\ TimedOut(waiters[c].timeout, waiters[c].start_time, now)
    /\ Wake(c, "WAKE_TIMEOUT", ok)

\* Condvar::wait may return with no notification
WakeSpurious(c, ok) ==
    /\ c \in DOMAIN waiters
    /\ Wake(c, "WAKE_SPURIOUS", ok)

\* ------------------------------------------------------------- environment
\* stream.read(..)? fails: handle_connection returns the error
ReadFail(c) ==
    /\ pc[c] = "read"
    /\ last' = Step("READ_ERR", c, <<>>, <<>>, NoReply, "io_error")
    /\ pc' = [pc EXCEPT ![c] = "failed"]
    /\ UNCHANGED <<db, poisoned, now, waiters>>

\* bytes_read == 0: the client closed, the loop breaks
Eof(c) ==
    /\ pc[c] = "read"
    /\ last' = Step("EOF", c, <<>>, <<>>, NoReply, "none")
    /\ pc' = [pc EXCEPT ![c] = "done"]
    /\ UNCHANGED <<db, poisoned, now, waiters>>

Tick ==
    /\ now < MaxTime
    /\ now' = now + 1
    /\ last' = Step("TICK", 0, <<>>, <<>>, NoReply, "none")
    /\ UNCHANGED <<db, poisoned, pc, waiters>>

\* ------------------------------------------------------------- inputs
PxArgs == {None, Some(0), Some(1)}
PushArgs == SeqsUpTo(Vals, 2)
IndexArgs == (0 - MaxLen - 1)..(MaxLen + 1)
CountArgs == {None} \cup {Some(n) : n \in 0..(MaxLen + 1)}
KeyLists == {<<"k">>, <<"q">>, <<"k", "q">>, <<"q", "k">>}
Timeouts == {-1, 0, 1}

\* The model's cap on list growth: a push is sent only while the list has room.
Room(key, values, max) == Len(ListOrEmpty(db, key)) + Len(values) <= max

\* ------------------------------------------------------------- the server
\* A step that records nothing in the history of GET replies.
Plain(A) == A /\ UNCHANGED seen

Next ==
    \/ \E c \in Conns, ok \in BOOLEAN : Plain(Ping(c, ok))
    \/ \E c \in Conns, v \in Vals, ok \in BOOLEAN : Plain(Echo(c, v, ok))
    \/ \E c \in Conns, k \in Keys, v \in Vals, px \in PxArgs, ok \in BOOLEAN :
           Plain(Set(c, k, v, px, ok))
    \/ \E c \in Conns, k \in Keys, ok \in BOOLEAN : Plain(Get(c, k, ok))
    \/ \E c \in Conns, k \in Keys, vs \in PushArgs, ok \in BOOLEAN :
           Room(k, vs, MaxLen) /\ Plain(Rpush(c, k, vs, ok))
    \/ \E c \in Conns, k \in Keys, vs \in PushArgs, ok \in BOOLEAN :
           Room(k, vs, MaxLen) /\ Plain(Lpush(c, k, vs, ok))
    \/ \E c \in Conns, k \in Keys, s \in IndexArgs, e \in IndexArgs, ok \in BOOLEAN :
           Plain(Lrange(c, k, s, e, ok))
    \/ \E c \in Conns, k \in Keys, ok \in BOOLEAN : Plain(Llen(c, k, ok))
    \/ \E c \in Conns, k \in Keys, n \in CountArgs, ok \in BOOLEAN :
           Plain(Lpop(c, k, n, ok))
    \/ \E c \in Conns, ks \in KeyLists, t \in Timeouts, ok \in BOOLEAN :
           Plain(Blpop(c, ks, t, ok))
    \/ \E c \in Conns, ok \in BOOLEAN : Plain(WakeNotified(c, ok))
    \/ \E c \in Conns, ok \in BOOLEAN : Plain(WakeTimeout(c, ok))
    \/ \E c \in Conns, ok \in BOOLEAN : Plain(WakeSpurious(c, ok))
    \/ \E c \in Conns : Plain(ReadFail(c))
    \/ \E c \in Conns : Plain(Eof(c))
    \/ Plain(Tick)

\* Every client, every command, every argument.  The specifications below are
\* sessions of it (each of their steps is a step of Next, up to the history
\* variable) small enough to check.
Spec == Init /\ [][Next]_vars

\* ------------------------------------------------------------- list session
\* One client working on one list key with every argument of the list commands.
NextList ==
    \/ \E vs \in PushArgs, ok \in BOOLEAN :
           Room("k", vs, MaxLen) /\ Plain(Rpush(1, "k", vs, ok))
    \/ \E vs \in PushArgs, ok \in BOOLEAN :
           Room("k", vs, MaxLen) /\ Plain(Lpush(1, "k", vs, ok))
    \/ \E s \in IndexArgs, e \in IndexArgs, ok \in BOOLEAN :
           Plain(Lrange(1, "k", s, e, ok))
    \/ \E ok \in BOOLEAN : Plain(Llen(1, "k", ok))
    \/ \E n \in CountArgs, ok \in BOOLEAN : Plain(Lpop(1, "k", n, ok))

SpecList == Init /\ [][NextList]_vars

\* ------------------------------------------------------------- scalars and lists
\* Every client sends SET (with and without PX), GET and the list commands to
\* every key while the clock runs.  The sockets are healthy: a failed write only
\* ends its own connection (Write), and no thread waits here for a notify_all.
NextKV ==
    \/ \E c \in Conns, k \in Keys, v \in Vals, px \in {None, Some(1)} :
           Plain(Set(c, k, v, px, TRUE))
    \/ \E c \in Conns, k \in Keys : Plain(Get(c, k, TRUE))
    \/ \E c \in Conns, k \in Keys :
           Room(k, <<"a">>, MaxQueue) /\ Plain(Rpush(c, k, <<"a">>, TRUE))
    \/ \E c \in Conns, k \in Keys :
           Room(k, <<"a">>, MaxQueue) /\ Plain(Lpush(c, k, <<"a">>, TRUE))
    \/ \E c \in Conns, k \in Keys : Plain(Lrange(c, k, 0, -1, TRUE))
    \/ \E c \in Conns, k \in Keys : Plain(Llen(c, k, TRUE))
    \/ \E c \in Conns, k \in Keys : Plain(Lpop(c, k, None, TRUE))
    \/ Plain(Tick)

SpecKV == Init /\ [][NextKV]_vars

\* ------------------------------------------------------------- GET history
\* What a GET that replied a value saw: the value, the time of the GET and the
\* entry's expiry horizon created_at + expires_in (None without expiry).
Seen(entry, t) ==
    [value |-> entry.value.s, at |-> t,
     horizon |-> IF entry.expires_in = None THEN None
                 ELSE Some(entry.created_at + entry.expires_in[1])]

\* A SET of the key starts its history afresh.
TrackedSet(c, key, value, px, ok) ==
    /\ Set(c, key, value, px, ok)
    /\ seen' = IF last'.out = "panic" THEN seen ELSE [seen EXCEPT ![key] = None]

\* A GET that replies a value is recorded; it replied the entry it found in db.
TrackedGet(c, key, ok) ==
    /\ Get(c, key, ok)
    /\ seen' = IF last'.reply.t = "bulk"
               THEN [seen EXCEPT ![key] = Some(Seen(db[key], now))]
               ELSE seen

\* Every client SETs and GETs every key while the clock runs and other commands
\* (pushes, pops, LLEN, LRANGE) go to the same keys.
NextGet ==
    \/ \E c \in Conns, k \in Keys, v \in Vals, px \in {None, Some(1)} :
           TrackedSet(c, k, v, px, TRUE)
    \/ \E c \in Conns, k \in Keys : TrackedGet(c, k, TRUE)
    \/ \E c \in Conns, k \in Keys :
           Room(k, <<"a">>, MaxQueue) /\ Plain(Rpush(c, k, <<"a">>, TRUE))
    \/ \E c \in Conns, k \in Keys : Plain(Lpop(c, k, None, TRUE))
    \/ \E c \in Conns, k \in Keys : Plain(Llen(c, k, TRUE))
    \/ Plain(Tick)

SpecGet == Init /\ [][NextGet]_vars

\* ------------------------------------------------------------- blocking pops
\* Every client pushes to every key and blocks, without a timeout, on "k" alone
\* or on both keys in either order; any write may fail.
BlockKeyLists == {<<"k">>, <<"k", "q">>, <<"q", "k">>}

NextBlock ==
    \/ \E c \in Conns, k \in Keys, v \in Vals, ok \in BOOLEAN :
           Room(k, <<v>>, MaxQueue) /\ Plain(Rpush(c, k, <<v>>, ok))
    \/ \E c \in Conns, k \in Keys, v \in Vals, ok \in BOOLEAN :
           Room(k, <<v>>, MaxQueue) /\ Plain(Lpush(c, k, <<v>>, ok))
    \/ \E c \in Conns, ks \in BlockKeyLists, ok \in BOOLEAN : Plain(Blpop(c, ks, 0, ok))
    \/ \E c \in Conns, ok \in BOOLEAN : Plain(WakeNotified(c, ok))
    \/ \E c \in Conns, ok \in BOOLEAN : Plain(WakeSpurious(c, ok))

SpecBlock == Init /\ [][NextBlock]_vars

\* ------------------------------------------------------------- step predicates
ListOps == {"RPUSH", "LPUSH", "LRANGE", "LLEN", "LPOP"}
ScanOps == {"BLPOP", "WAKE", "WAKE_TIMEOUT", "WAKE_SPURIOUS"}

\* ------------------------------------------------------------- C1
\* Client 1 blocks on "k" without a timeout and its socket is healthy; the other
\* clients push to every key, and their writes may fail.  Nobody else pops.
NextLive ==
    \/ Plain(Blpop(1, <<"k">>, 0, TRUE))
    \/ \E c \in Conns \ {1}, k \in Keys, v \in Vals, ok \in BOOLEAN :
           Room(k, <<v>>, MaxQueue) /\ Plain(Rpush(c, k, <<v>>, ok))
    \/ Plain(WakeNotified(1, TRUE))
    \/ Plain(WakeSpurious(1, TRUE))

\* The scheduler runs a notified thread: it leaves cv.wait and takes the mutex,
\* which every other thread frees in a bounded time.  A spurious wake-up may
\* never come.
SpecLive == Init /\ [][NextLive]_vars /\ WF_vars(Plain(WakeNotified(1, TRUE)))

\* C1: BLPOP liveness.  Once the waiter on "k" is blocked and the list at "k"
\* has gained an element, the waiter eventually pops and replies [k, v].
C1_BlpopLiveness ==
    (1 \in DOMAIN waiters /\ ListOrEmpty(db, "k") # <<>>) ~> (pc[1] = "done")

\* ------------------------------------------------------------- C2
\* C2: no lost wake-up.  While the mutex is free, no BLPOP waiter without a
\* timeout is asleep with no wake-up pending while one of its keys holds a
\* non-empty list.
C2_NoLostWakeup ==
    \A c \in DOMAIN waiters :
        (~waiters[c].notified /\ waiters[c].timeout = 0)
            => \A i \in 1..Len(waiters[c].keys) :
                   ListOrEmpty(db, waiters[c].keys[i]) = <<>>

\* ------------------------------------------------------------- C3
\* C3: no command is fatal to the shared engine.  A command that cannot fail by
\* itself (SET, GET, RPUSH, LPUSH, LLEN, LPOP on a healthy socket) is executed
\* and replied to, whatever the other connections sent before.
C3_NoCommandFatal ==
    last.op \in {"SET", "GET", "RPUSH", "LPUSH", "LLEN", "LPOP"} => last.out = "replied"

\* ------------------------------------------------------------- C4
\* C4: LRANGE on a key that holds an empty list replies the empty array, for
\* every start and stop.  (LRANGE leaves db as it found it, so db is the
\* keyspace the command ran on.)
C4_LrangeEmptyList ==
    (last.op = "LRANGE" /\ IsList(db, last.keys[1]) /\ db[last.keys[1]].value.list = <<>>)
        => (last.reply = Array(<<>>) /\ last.out # "panic")

\* ------------------------------------------------------------- C5
\* The normalisation as the specification words it.
SpecStart(len, start) ==
    LET s == IF start < 0 THEN len + start ELSE start
    IN  IF s < 0 THEN 0 ELSE IF s > len THEN len ELSE s
SpecStop(len, stop) ==
    LET e == IF stop < 0 THEN len + stop ELSE stop
    IN  IF e < 0 THEN 0 ELSE IF e > len - 1 THEN len - 1 ELSE e
SpecRange(list, start, stop) ==
    LET len == Len(list)
        s == SpecStart(len, start)
        e == SpecStop(len, stop)
    IN  IF s >= len \/ s > e THEN <<>>
        ELSE [i \in 1..(e - s + 1) |-> Bulk(list[s + i])]

\* C5: on a non-empty list LRANGE replies exactly list[s..=e] (the empty array
\* when s >= len or s > e), the slice it takes lies inside the list, and
\* LRANGE 0 -1 replies the whole list.
C5_LrangeNormalization ==
    (last.op = "LRANGE" /\ IsList(db, last.keys[1]) /\ db[last.keys[1]].value.list # <<>>)
        => LET list == db[last.keys[1]].value.list
               start_idx == StartIdx(Len(list), last.args[1])
               stop_idx == StopIdx(Len(list), last.args[2])
           IN  /\ last.out # "panic"
               /\ last.reply = Array(SpecRange(list, last.args[1], last.args[2]))
               /\ (start_idx < Len(list) /\ start_idx <= stop_idx)
                      => (0 <= start_idx /\ stop_idx <= Len(list) - 1)
               /\ last.args = <<0, -1>> => last.reply = Array(BulkAll(list))

\* A slice of the middle of a list of three has been replied.
C5_Witness ==
    /\ last.op = "LRANGE"
    /\ last.args = <<-2, 1>>
    /\ IsList(db, "k")
    /\ Len(db["k"].value.list) = 3
    /\ last.reply = Array(<<Bulk(db["k"].value.list[2])>>)

\* ------------------------------------------------------------- C6
\* C6: once a command has been replied to, its connection reads the next one.
C6_NextCommandServed == last.out = "replied" => pc[last.conn] = "read"

\* ------------------------------------------------------------- C7
\* The step is a list command sent to a key holding a scalar, or a GET sent to
\* a key holding a list, and the arm ran (the mutex was not poisoned).
Mismatch ==
    /\ ~poisoned
    /\ \/ last'.op \in ListOps /\ IsString(db, last'.keys[1])
       \/ last'.op = "GET" /\ IsList(db, last'.keys[1])

\* C7: a type mismatch replies WRONGTYPE and leaves every entry of the keyspace
\* (value, variant, creation time, expiry) as it was, so that a GET that follows
\* finds the scalar it would have found before.
C7_MismatchNoEffect ==
    [][Mismatch => (last'.reply = WrongType /\ last'.out # "panic" /\ db' = db
                    /\ GetReply(db', last'.keys[1]) = GetReply(db, last'.keys[1]))]_vars

\* An LPUSH has been refused on a key that holds a scalar with an expiry.
C7_Witness ==
    /\ last.op = "LPUSH"
    /\ last.reply = WrongType
    /\ IsString(db, last.keys[1])
    /\ db[last.keys[1]].expires_in # None

\* ------------------------------------------------------------- C8
\* The reply each read gives for an absent key.
AbsentReply(op) ==
    CASE op = "GET" -> NullBulk
      [] op = "LLEN" -> Integer(0)
      [] op = "LRANGE" -> Array(<<>>)
      [] op = "LPOP" -> NullBulk

\* C8: a GET, LLEN, LRANGE or LPOP that finds a scalar past its expiry deletes
\* the entry and replies as for an absent key.
C8_LazyExpiryOnEveryRead ==
    [][(/\ ~poisoned
        /\ last'.op \in {"GET", "LLEN", "LRANGE", "LPOP"}
        /\ IsString(db, last'.keys[1])
        /\ IsExpired(db, last'.keys[1], now))
       => (/\ last'.keys[1] \notin DOMAIN db'
           /\ last'.reply = AbsentReply(last'.op))]_vars

\* ------------------------------------------------------------- C9
\* The step is a GET of a key whose value an earlier GET replied, with no SET
\* of the key in between, and the arm ran.
GetAgain == ~poisoned /\ last'.op = "GET" /\ seen[last'.keys[1]] # None

\* C9 as claimed: the later GET replies the same value, or the expiry horizon
\* lies in (t1, t2] and the GET replies null bulk.
C9_GetStabilityAsClaimed ==
    [][GetAgain =>
         LET o == seen[last'.keys[1]][1]
         IN  \/ last'.reply = Bulk(o.value)
             \/ /\ o.horizon # None
                /\ o.at < o.horizon[1]
                /\ o.horizon[1] <= now
                /\ last'.reply = NullBulk]_vars

\* C9 amended: the later GET replies the same value, or the expiry horizon lies
\* in [t1, t2) and the GET replies null bulk or, the key having been pushed to
\* after a GET removed the expired entry, WRONGTYPE.
C9_GetStability ==
    [][GetAgain =>
         LET o == seen[last'.keys[1]][1]
         IN  \/ last'.reply = Bulk(o.value)
             \/ /\ o.horizon # None
                /\ o.at <= o.horizon[1]
                /\ o.horizon[1] < now
                /\ \/ last'.reply = NullBulk
                   \/ last'.reply = WrongType /\ IsList(db, last'.keys[1])]_vars

\* A GET replied null bulk for a key whose value an earlier GET had replied at
\* the very instant of its expiry horizon.
C9_Witness ==
    /\ last.op = "GET"
    /\ last.reply = NullBulk
    /\ seen[last.keys[1]] # None
    /\ seen[last.keys[1]][1].horizon = Some(seen[last.keys[1]][1].at)

\* ------------------------------------------------------------- C10
\* The keys of `keys` that hold a non-empty list.
Ready(map, keys) == {i \in 1..Len(keys) : ListOrEmpty(map, keys[i]) # <<>>}
Earliest(S) == CHOOSE i \in S : \A j \in S : i <= j

\* C10: a scan of BLPOP (the first one or one after a wake-up) that finds some
\* of its keys non-empty pops the head of the earliest of them in argument
\* order, replies [that key, that head], changes nothing else in the keyspace
\* and does not go (back) to waiting.
C10_BlpopKeyPriority ==
    [][(~poisoned /\ last'.op \in ScanOps /\ Ready(db, last'.keys) # {})
       => LET key == last'.keys[Earliest(Ready(db, last'.keys))]
              list == db[key].value.list
          IN  /\ last'.reply = Array(<<Bulk(key), Bulk(list[1])>>)
              /\ last'.out # "blocked"
              /\ last'.conn \notin DOMAIN waiters'
              /\ db' = [db EXCEPT ![key].value.list = Tail(list)]]_vars

\* A woken waiter on <<"q", "k">> found both lists non-empty and popped "q",
\* leaving "k" non-empty.
C10_Witness ==
    /\ last.op = "WAKE"
    /\ last.keys = <<"q", "k">>
    /\ last.reply.t = "array"
    /\ last.reply.elems[1] = Bulk("q")
    /\ ListOrEmpty(db, "k") # <<>>

\* ------------------------------------------------------------- timed blocking pops
\* Every client pushes to every key and blocks on "k" alone or on "k" then "q",
\* forever (timeout 0) or for one tick of the clock, while the clock runs.  A
\* waiter leaves cv.wait / cv.wait_timeout on a notification, on the end of its
\* timeout or spuriously, and takes the mutex when the scheduler lets it: the
\* clock may have moved on in between.  The sockets are healthy.
TimedKeyLists == {<<"k">>, <<"k", "q">>}
TimedTimeouts == {0, 1}

NextTimed ==
    \/ \E c \in Conns, k \in Keys :
           Room(k, <<"a">>, MaxQueue) /\ Plain(Rpush(c, k, <<"a">>, TRUE))
    \/ \E c \in Conns, ks \in TimedKeyLists, t \in TimedTimeouts :
           Plain(Blpop(c, ks, t, TRUE))
    \/ \E c \in Conns : Plain(WakeNotified(c, TRUE))
    \/ \E c \in Conns : Plain(WakeTimeout(c, TRUE))
    \/ \E c \in Conns : Plain(WakeSpurious(c, TRUE))
    \/ Plain(Tick)

SpecTimed == Init /\ [][NextTimed]_vars

\* ------------------------------------------------------------- C11
\* The deadline start + timeout of the BLPOP whose scan the step runs: the
\* first scan starts the clock, a later one finds start_time in the waiter.
Deadline ==
    (IF last'.op = "BLPOP" THEN now ELSE waiters[last'.conn].start_time) + last'.args[1]

\* C11: for a BLPOP with timeout > 0, a scan made when the clock has reached
\* the deadline and no key yields replies the null array, pops nothing and
\* ends the wait; a scan that begins after the deadline pops no element; the
\* null array is never replied before the deadline.
C11_BlpopDeadline ==
    [][(~poisoned /\ last'.op \in ScanOps /\ last'.args[1] > 0)
       => /\ (now >= Deadline /\ Ready(db, last'.keys) = {})
                 => (/\ last'.reply = NullArray
                     /\ db' = db
                     /\ last'.conn \notin DOMAIN waiters')
          /\ now > Deadline => (last'.reply.t # "array" /\ db' = db)
          /\ last'.reply = NullArray => now >= Deadline]_vars

\* ------------------------------------------------------------- C12
\* C12: a scan of a BLPOP with timeout 0 (the first one or one after any
\* wake-up, at any reading of the clock) never replies the null array; when
\* none of its keys holds a non-empty list it changes nothing and the thread
\* waits (again); and the thread leaves the BLPOP only with a popped element.
C12_BlpopZeroWaitsForever ==
    [][(~poisoned /\ last'.op \in ScanOps /\ last'.args[1] = 0)
       => /\ last'.reply # NullArray
          /\ Ready(db, last'.keys) = {}
                 => (/\ last'.out = "blocked"
                     /\ pc'[last'.conn] = "wait"
                     /\ last'.conn \in DOMAIN waiters'
                     /\ db' = db)
          /\ pc'[last'.conn] # "wait"
                 => (/\ last'.reply.t = "array"
                     /\ Ready(db, last'.keys) # {}
                     /\ db' # db)]_vars

\* A waiter without a timeout, notified by a push that another client has
\* consumed, went back to waiting after the clock had run to its end.
C12_Witness ==
    /\ last.op = "WAKE"
    /\ last.args = <<0>>
    /\ last.out = "blocked"
    /\ now = MaxTime
    /\ IsList(db, "k")
    /\ db["k"].value.list = <<>>
    /\ \E c \in Conns : c # last.conn /\ pc[c] = "done"

\* ------------------------------------------------------------- concurrent pushes
\* The connections that have sent their RPUSH to `key`.
Pushers(key) ==
    IF seen[key] = None THEN {}
    ELSE {seen[key][1].pushes[i].conn : i \in 1..Len(seen[key][1].pushes)}

\* An RPUSH of one value, recorded with its reply in the order the pushes took
\* the mutex; the first of them records the length the list had before.
TrackedRpush(c, key, value, ok) ==
    /\ Rpush(c, key, <<value>>, ok)
    /\ seen' = [seen EXCEPT ![key] =
                   LET h == IF seen[key] = None
                            THEN [init |-> Len(ListOrEmpty(db, key)), pushes |-> <<>>]
                            ELSE seen[key][1]
                   IN  Some([h EXCEPT !.pushes =
                                 Append(@, [conn |-> c, reply |-> last'.reply])])]

\* The key "k" is absent or is given a list of up to MaxQueue elements; then
\* every connection sends one RPUSH of one value to it, in any order, and
\* nobody pops.  LLEN reads the length at any time.  The sockets are healthy.
NextPush ==
    \/ \E c \in Conns, vs \in PushArgs :
           /\ seen["k"] = None
           /\ Room("k", vs, MaxQueue)
           /\ Plain(Rpush(c, "k", vs, TRUE))
    \/ \E c \in Conns, v \in Vals :
           c \notin Pushers("k") /\ TrackedRpush(c, "k", v, TRUE)
    \/ \E c \in Conns : Plain(Llen(c, "k", TRUE))

SpecPush == Init /\ [][NextPush]_vars

\* ------------------------------------------------------------- C13
\* C13: after any number N of the connections have each pushed one value to a
\* key, in any order, LLEN of the key is the initial length plus N, and the
\* replies of the pushes, in the order they were executed, are the consecutive
\* lengths initial + 1 .. initial + N (so they are distinct); the pushed values
\* are all in the list, after the initial elements.
C13_ConcurrentPushesNotLost ==
    \A k \in Keys :
        seen[k] # None
            => LET h == seen[k][1]
                   n == Len(h.pushes)
               IN  /\ LlenReply(db, k) = Integer(h.init + n)
                   /\ \A i \in 1..n : h.pushes[i].reply = Integer(h.init + i)
                   /\ Cardinality({h.pushes[i].reply : i \in 1..n}) = n
                   /\ Cardinality(Pushers(k)) = n
                   /\ (last.op = "LLEN" /\ last.keys[1] = k)
                          => last.reply = Integer(h.init + n)

\* Every connection has pushed to "k", which held two elements before, and an
\* LLEN has read the final length.
C13_Witness ==
    /\ seen["k"] # None
    /\ seen["k"][1].init = 2
    /\ Pushers("k") = Conns
    /\ last.op = "LLEN"
    /\ last.keys = <<"k">>
    /\ last.reply = Integer(2 + NumConns)

\* ------------------------------------------------------------- C14
\* vn..v1
Reversed(values) == [i \in 1..Len(values) |-> values[Len(values) + 1 - i]]

\* C14: an RPUSH or LPUSH of v1..vn to a key that is absent or holds the list
\* L leaves a list at the key, L followed by v1..vn for RPUSH and vn..v1
\* followed by L for LPUSH; a list created for an absent key has no expiry;
\* and the integer replied is the length before plus n, the length after.
C14_PushResult ==
    [][(/\ ~poisoned
        /\ last'.op \in {"RPUSH", "LPUSH"}
        /\ ~IsString(db, last'.keys[1]))
       => LET key == last'.keys[1]
              L == IF key \in DOMAIN db THEN db[key].value.list ELSE <<>>
              values == last'.args
          IN  /\ IsList(db', key)
              /\ last'.op = "RPUSH" => db'[key].value.list = L \o values
              /\ last'.op = "LPUSH" => db'[key].value.list = Reversed(values) \o L
              /\ last'.reply = Integer(Len(L) + Len(values))
              /\ last'.reply = Integer(Len(db'[key].value.list))
              /\ key \notin DOMAIN db => db'[key].expires_in = None]_vars

\* LPUSH k a b on the list [b] has left [b, a, b] and replied 3.
C14_Witness ==
    /\ last.op = "LPUSH"
    /\ last.args = <<"a", "b">>
    /\ last.reply = Integer(3)
    /\ IsList(db, "k")
    /\ db["k"].value.list = <<"b", "a", "b">>

\* ------------------------------------------------------------- C15
\* C15: LPOP with a count n on a key holding a list L of length len takes
\* take = min(n, len) elements: with take = 0 it replies the null array and
\* changes nothing, otherwise it replies the array L[1..take] in that order and
\* leaves L[take+1..len] at the key, the rest of the keyspace untouched; with
\* n >= len the key stays present with the empty list and LLEN yields 0.  On an
\* absent key it replies null bulk.
C15_LpopCount ==
    [][(/\ ~poisoned
        /\ last'.op = "LPOP"
        /\ last'.args # None
        /\ ~IsString(db, last'.keys[1]))
       => LET key == last'.keys[1]
              n == last'.args[1]
          IN  IF key \notin DOMAIN db
              THEN last'.reply = NullBulk /\ db' = db
              ELSE LET L == db[key].value.list
                       len == Len(L)
                       take == IF n < len THEN n ELSE len
                   IN  /\ take = 0 => (last'.reply = NullArray /\ db' = db)
                       /\ take > 0 =>
                            /\ last'.reply = Array([i \in 1..take |-> Bulk(L[i])])
                            /\ db' = [db EXCEPT ![key].value.list =
                                         [i \in 1..(len - take) |-> L[take + i]]]
                       /\ n >= len =>
                            /\ IsList(db', key)
                            /\ db'[key].value.list = <<>>
                            /\ LlenReply(db', key) = Integer(0)]_vars

\* LPOP k 2 on [a, b, a] has replied [a, b] and left [a].
C15_Witness ==
    /\ last.op = "LPOP"
    /\ last.args = <<2>>
    /\ last.reply = Array(<<Bulk("a"), Bulk("b")>>)
    /\ IsList(db, "k")
    /\ db["k"].value.list = <<"a">>

\* ------------------------------------------------------------- every command
\* Every client sends every command to every key: SET with and without PX, GET,
\* the list commands and BLPOP without a timeout on "k" then "q", with one
\* value and one argument of each kind, while the clock runs.  The sockets are
\* healthy.
NextMix ==
    \/ \E c \in Conns, k \in Keys, px \in {None, Some(0)} :
           Plain(Set(c, k, "a", px, TRUE))
    \/ \E c \in Conns, k \in Keys : Plain(Get(c, k, TRUE))
    \/ \E c \in Conns, k \in Keys :
           Room(k, <<"b">>, MixLen) /\ Plain(Rpush(c, k, <<"b">>, TRUE))
    \/ \E c \in Conns, k \in Keys :
           Room(k, <<"b">>, MixLen) /\ Plain(Lpush(c, k, <<"b">>, TRUE))
    \/ \E c \in Conns, k \in Keys : Plain(Lrange(c, k, 0, -1, TRUE))
    \/ \E c \in Conns, k \in Keys : Plain(Llen(c, k, TRUE))
    \/ \E c \in Conns, k \in Keys : Plain(Lpop(c, k, None, TRUE))
    \/ \E c \in Conns : Plain(Blpop(c, <<"k", "q">>, 0, TRUE))
    \/ \E c \in Conns : Plain(WakeNotified(c, TRUE))
    \/ now < MixTime /\ Plain(Tick)

SpecMix == Init /\ [][NextMix]_vars

\* ------------------------------------------------------------- C16
ReadAndPopOps == {"GET", "LRANGE", "LLEN", "LPOP"} \cup ScanOps

\* C16: in every step, a key present before and after whose variant differs
\* has been SET by the step; a key that holds a list after the step and did
\* not before was absent and has been pushed to (RPUSH or LPUSH) by the step;
\* and a GET, LRANGE, LLEN, LPOP or BLPOP scan neither changes the variant of
\* a key nor creates one.
C16_VariantDiscipline ==
    [][\A k \in Keys :
         /\ (k \in DOMAIN db /\ k \in DOMAIN db' /\ db'[k].value.tag # db[k].value.tag)
                => (last'.op = "SET" /\ last'.keys = <<k>>)
         /\ (IsList(db', k) /\ ~IsList(db, k))
                => (/\ k \notin DOMAIN db
                    /\ last'.op \in {"RPUSH", "LPUSH"}
                    /\ last'.keys = <<k>>)
         /\ last'.op \in ReadAndPopOps
                => (/\ k \in DOMAIN db' => k \in DOMAIN db
                    /\ k \in DOMAIN db' => db'[k].value.tag = db[k].value.tag)]_vars

\* A SET has made "k" a scalar after a BLPOP had popped from the list at "k":
\* at time 0 nothing has expired, so "q", absent, never held anything.
C16_Witness ==
    /\ last.op = "SET"
    /\ last.keys = <<"k">>
    /\ IsString(db, "k")
    /\ now = 0
    /\ "q" \notin DOMAIN db
    /\ \E c \in Conns : pc[c] = "done"

\* ------------------------------------------------------------- C17
\* C17: in every reachable state every entry holding a list has no expiry; a
\* step that leaves at a key an entry with an expiry that was not there before
\* is a SET of that key and the entry is a scalar; and a key holding a list
\* holds a list after every step that is not a SET of that key: no GET (the
\* only lazy removal) and no other command deletes it.
C17_ListsNeverExpire ==
    /\ [](\A k \in DOMAIN db : IsList(db, k) => db[k].expires_in = None)
    /\ [][\A k \in Keys :
            /\ (/\ k \in DOMAIN db'
                /\ db'[k].expires_in # None
                /\ (k \notin DOMAIN db \/ db[k] # db'[k]))
                   => (last'.op = "SET" /\ last'.keys = <<k>> /\ IsString(db', k))
            /\ (IsList(db, k) /\ ~(last'.op = "SET" /\ last'.keys = <<k>>))
                   => (IsList(db', k) /\ ~IsExpired(db, k, now))]_vars

\* At the end of the clock a GET found a list created at time 0 still at "k"
\* (WRONGTYPE), while "q" holds a scalar with an expiry.
C17_Witness ==
    /\ last.op = "GET"
    /\ last.keys = <<"k">>
    /\ last.reply = WrongType
    /\ now = MaxTime
    /\ db["k"].created_at = 0
    /\ IsString(db, "q")
    /\ db["q"].expires_in # None

\* ------------------------------------------------------------- parse_message
\* A frame is modelled by its bulk strings: `argv[i]` is lines[2 * i] of the
\* split input (lines[0] is the array header, the odd lines are the $len lines,
\* which no branch reads).  lines.get(2 * i):
Arg(argv, i) == IF i <= Len(argv) THEN Some(argv[i]) ELSE None

\* str::parse::<u64>() / ::<usize>(), ::<i64>() and ::<f64>() over the tokens
\* the clients send: "x" is no number, "-1" is no unsigned number.
ParseU64(s) == CASE s = "0" -> Some(0) [] s = "1" -> Some(1) [] OTHER -> None
ParseI64(s) ==
    CASE s = "-1" -> Some(-1) [] s = "0" -> Some(0) [] s = "1" -> Some(1) [] OTHER -> None
ParseF64(s) ==
    CASE s = "-1" -> Some(-1) [] s = "0" -> Some(0) [] s = "1" -> Some(1) [] OTHER -> None

\* lines.iter().position(|p| p.to_uppercase() == "PX"), then lines.get(pos + 2)
ParsePx(argv) ==
    LET P == {i \in 1..Len(argv) : argv[i] = "PX"}
    IN  IF P = {} THEN None
        ELSE LET pos == CHOOSE i \in P : \A j \in P : i <= j
             IN  IF pos + 1 <= Len(argv) THEN ParseU64(argv[pos + 1]) ELSE None

\* fn parse_message(input) -> Option<Command>
ParseMessage(argv) ==
    IF argv = <<>> THEN None
    ELSE LET name == argv[1]
             n == Len(argv)
         IN  CASE name = "PING" -> Some([name |-> "PING"])
               [] name = "ECHO" ->
                    IF n < 2 THEN None ELSE Some([name |-> "ECHO", content |-> argv[2]])
               [] name = "SET" ->
                    IF n < 3 THEN None
                    ELSE Some([name |-> "SET", key |-> argv[2], value |-> argv[3],
                               px |-> ParsePx(argv)])
               [] name \in {"GET", "LLEN"} ->
                    IF n < 2 THEN None ELSE Some([name |-> name, key |-> argv[2]])
               [] name \in {"RPUSH", "LPUSH"} ->
                    IF n < 2 THEN None
                    ELSE Some([name |-> name, key |-> argv[2], values |-> SubSeq(argv, 3, n)])
               [] name = "LRANGE" ->
                    IF n < 4 \/ ParseI64(argv[3]) = None \/ ParseI64(argv[4]) = None
                    THEN None
                    ELSE Some([name |-> "LRANGE", key |-> argv[2],
                               start |-> ParseI64(argv[3])[1], stop |-> ParseI64(argv[4])[1]])
               [] name = "LPOP" ->
                    IF n < 2 THEN None
                    ELSE Some([name |-> "LPOP", key |-> argv[2],
                               count |-> IF n < 3 THEN None ELSE ParseU64(argv[3])])
               [] name = "BLPOP" ->
                    IF ParseF64(argv[n]) = None THEN None
                    ELSE Some([name |-> "BLPOP", keys |-> SubSeq(argv, 2, n - 1),
                               timeout |-> ParseF64(argv[n])[1]])
               [] OTHER -> None

\* match command { ... }
Exec(c, cmd, ok) ==
    \/ cmd.name = "PING" /\ Ping(c, ok)
    \/ cmd.name = "ECHO" /\ Echo(c, cmd.content, ok)
    \/ cmd.name = "SET" /\ Set(c, cmd.key, cmd.value, cmd.px, ok)
    \/ cmd.name = "GET" /\ Get(c, cmd.key, ok)
    \/ cmd.name = "RPUSH" /\ Rpush(c, cmd.key, cmd.values, ok)
    \/ cmd.name = "LPUSH" /\ Lpush(c, cmd.key, cmd.values, ok)
    \/ cmd.name = "LRANGE" /\ Lrange(c, cmd.key, cmd.start, cmd.stop, ok)
    \/ cmd.name = "LLEN" /\ Llen(c, cmd.key, ok)
    \/ cmd.name = "LPOP" /\ Lpop(c, cmd.key, cmd.count, ok)
    \/ cmd.name = "BLPOP" /\ Blpop(c, cmd.keys, cmd.timeout, ok)

\* One turn of the read loop on a frame: `if let Some(command) = parse_message(..)`
\* runs the arm; on None nothing is written and the loop reads again.
Recv(c, argv, ok) ==
    /\ pc[c] = "read"
    /\ IF ParseMessage(argv) = None
       THEN /\ last' = Step("DROP", c, <<>>, argv, NoReply, "dropped")
            /\ UNCHANGED <<db, poisoned, now, pc, waiters>>
       ELSE Exec(c, ParseMessage(argv)[1], ok)

\* The frames the clients send: well-formed commands, and commands whose
\* numeric argument is no number ("x") or no unsigned number ("-1").
Frames ==
    {<<"SET", "k", "a">>, <<"SET", "k", "a", "PX", "1">>, <<"SET", "k", "b", "PX", "x">>,
     <<"SET", "k", "b", "PX", "-1">>, <<"GET", "k">>, <<"RPUSH", "k", "a">>,
     <<"LRANGE", "k", "0", "-1">>, <<"LRANGE", "k", "x", "1">>, <<"LRANGE", "k", "0", "x">>,
     <<"LLEN", "k">>, <<"BLPOP", "k", "0">>, <<"BLPOP", "k", "x">>}

\* Every client sends every frame while the clock runs; the sockets are healthy.
NextParse ==
    \/ \E c \in Conns, argv \in Frames :
           /\ (argv[1] = "RPUSH" => Room(argv[2], <<argv[3]>>, MaxQueue))
           /\ Plain(Recv(c, argv, TRUE))
    \/ \E c \in Conns : Plain(WakeNotified(c, TRUE))
    \/ Plain(Tick)

SpecParse == Init /\ [][NextParse]_vars

\* ------------------------------------------------------------- C18
\* The frame is a SET whose PX argument, an LRANGE whose start or stop, or a
\* BLPOP whose timeout is no number.
BadNumber(argv) ==
    \/ argv[1] = "SET" /\ Len(argv) = 5 /\ argv[4] = "PX" /\ argv[5] \notin {"0", "1"}
    \/ argv[1] = "LRANGE" /\ (argv[3] \notin {"-1", "0", "1"} \/ argv[4] \notin {"-1", "0", "1"})
    \/ argv[1] = "BLPOP" /\ argv[Len(argv)] \notin {"-1", "0", "1"}

\* C18: a frame whose numeric argument fails to parse gets no reply, leaves the
\* keyspace as it is, and the connection reads its next command.
C18_NumericParseFailureDrops ==
    [][\A c \in Conns, argv \in Frames :
         (BadNumber(argv) /\ Recv(c, argv, TRUE))
             => (/\ last'.reply = NoReply
                 /\ db' = db
                 /\ pc'[c] = "read"
                 /\ waiters' = waiters)]_vars

\* ------------------------------------------------------------- C19
WakeOps == {"WAKE", "WAKE_TIMEOUT", "WAKE_SPURIOUS"}

\* C19: when a waiter of BLPOP wakes, finds one of its keys non-empty and the
\* write of its reply fails, the head of that list is gone from the list (it
\* is neither put back nor replied to anybody: the failed write is all the
\* step sends), the rest of that list and every other key are as they were,
\* and the waiter's thread ends.
C19_LostElementOnFailedDelivery ==
    [][(/\ ~poisoned
        /\ last'.op \in WakeOps
        /\ Ready(db, last'.keys) # {}
        /\ last'.out = "io_error")
       => LET key == last'.keys[Earliest(Ready(db, last'.keys))]
              list == db[key].value.list
          IN  /\ last'.reply = Array(<<Bulk(key), Bulk(list[1])>>)
              /\ db' = [db EXCEPT ![key].value.list =
                           [i \in 1..(Len(list) - 1) |-> list[i + 1]]]
              /\ pc' = [pc EXCEPT ![last'.conn] = "failed"]
              /\ last'.conn \notin DOMAIN waiters']_vars

\* A notified waiter popped "a" from [a, b] at "k", its write failed, and [b]
\* is what is left.
C19_Witness ==
    /\ last.op = "WAKE"
    /\ last.out = "io_error"
    /\ last.reply = Array(<<Bulk("k"), Bulk("a")>>)
    /\ pc[last.conn] = "failed"
    /\ IsList(db, "k")
    /\ db["k"].value.list = <<"b">>

\* ------------------------------------------------------------- C20
\* C20: a SET of k to v, with or without PX, on whatever k holds, replies OK
\* and leaves at k the scalar v created at the time of the SET, with the expiry
\* of the PX argument and none without it (such an entry is expired at no
\* time, whatever expiry k had before); the other keys are as they were.
C20_SetOverwrites ==
    [][(~poisoned /\ last'.op = "SET")
       => LET c == last'.conn
              k == last'.keys[1]
              v == last'.args[1]
          IN  \A px \in {None, Some(1)} :
                Set(c, k, v, px, TRUE)
                    => (/\ last'.reply = Simple("OK")
                        /\ last'.out = "replied"
                        /\ DOMAIN db' = DOMAIN db \cup {k}
                        /\ db'[k] = [value |-> [tag |-> "String", s |-> v],
                                     created_at |-> now, expires_in |-> px]
                        /\ \A o \in DOMAIN db \ {k} : db'[o] = db[o]
                        /\ GetReply(db', k) = Bulk(v)
                        /\ px = None
                               => \A t \in now..(MaxTime + 1) : ~IsExpired(db', k, t))]_vars

\* At the end of the clock a SET without PX has left at "k" a scalar created
\* then, without expiry, next to a list at "q".
C20_Witness ==
    /\ last.op = "SET"
    /\ last.keys = <<"k">>
    /\ last.reply = Simple("OK")
    /\ now = MaxTime
    /\ db["k"] = [value |-> [tag |-> "String", s |-> "b"],
                  created_at |-> MaxTime, expires_in |-> None]
    /\ IsList(db, "q")

\* ------------------------------------------------------------- producer and consumers
\* One more accepted connection, which only pushes; the connections of Conns
\* only pop.
Producer == 0

InitOnce ==
    /\ db = EmptyMap
    /\ poisoned = FALSE
    /\ now = 0
    /\ pc = [c \in Conns \cup {Producer} |-> "read"]
    /\ waiters = EmptyMap
    /\ last = Step("INIT", 0, <<>>, <<>>, NoReply, "none")
    /\ seen = [k \in Keys |-> None]

\* The history of a key: the values pushed to it, and the elements taken out
\* of its list, in order, each with the connection whose step took it and
\* whether that step's reply was written.
Hist(k) == IF seen[k] = None THEN [pushed |-> {}, removed |-> <<>>] ELSE seen[k][1]

\* What the step has pushed to the list at k, and what it has taken from it.
PushedBy(k) ==
    IF last'.op \in {"RPUSH", "LPUSH"} /\ last'.keys[1] = k /\ last'.reply.t = "integer"
    THEN {last'.args[i] : i \in 1..Len(last'.args)}
    ELSE {}
TakenBy(k) ==
    LET old == ListOrEmpty(db, k)
        new == ListOrEmpty(db', k)
    IN  IF Len(new) < Len(old) THEN SubSeq(old, 1, Len(old) - Len(new)) ELSE <<>>

\* A step of connection c, recorded in the histories of the keys.
Tracked(A, c) ==
    /\ A
    /\ seen' = [k \in Keys |->
                  IF PushedBy(k) = {} /\ TakenBy(k) = <<>> THEN seen[k]
                  ELSE Some([pushed |-> Hist(k).pushed \cup PushedBy(k),
                             removed |-> Hist(k).removed \o
                                 [i \in 1..Len(TakenBy(k)) |->
                                     [conn |-> c, value |-> TakenBy(k)[i],
                                      delivered |-> last'.out = "replied"]]])]

OnceKeyLists == {<<"k">>, <<"q", "k">>}

\* The producer pushes each value once to each key, at either end; every
\* consumer pops with LPOP (with and without a count) and with BLPOP without a
\* timeout; any write may fail.
NextOnce ==
    \/ \E k \in Keys, v \in Vals, ok \in BOOLEAN :
           v \notin Hist(k).pushed /\ Tracked(Rpush(Producer, k, <<v>>, ok), Producer)
    \/ \E k \in Keys, v \in Vals, ok \in BOOLEAN :
           v \notin Hist(k).pushed /\ Tracked(Lpush(Producer, k, <<v>>, ok), Producer)
    \/ \E c \in Conns, n \in {None, Some(2)}, ok \in BOOLEAN :
           Tracked(Lpop(c, "k", n, ok), c)
    \/ \E c \in Conns, ks \in OnceKeyLists, ok \in BOOLEAN :
           Tracked(Blpop(c, ks, 0, ok), c)
    \/ \E c \in Conns, ok \in BOOLEAN : Tracked(WakeNotified(c, ok), c)
    \/ \E c \in Conns, ok \in BOOLEAN : Tracked(WakeSpurious(c, ok), c)

\* The scheduler runs every notified waiter: it leaves cv.wait and takes the
\* mutex.  A spurious wake-up may never come.
SpecOnce ==
    /\ InitOnce
    /\ [][NextOnce]_vars
    /\ \A c \in Conns : WF_vars(Tracked(WakeNotified(c, TRUE), c))

\* ------------------------------------------------------------- C21
\* The waiters blocked on the key.
WaitingOn(k) ==
    {c \in DOMAIN waiters : \E i \in 1..Len(waiters[c].keys) : waiters[c].keys[i] = k}

\* Every value pushed to a key is in its list or has been taken out of it by
\* one step of one connection, never both and never twice.
ExactlyOnce ==
    \A k \in Keys :
        LET list == ListOrEmpty(db, k)
            inlist == {list[i] : i \in 1..Len(list)}
            removed == Hist(k).removed
            out == {removed[i].value : i \in 1..Len(removed)}
        IN  /\ inlist \cup out = Hist(k).pushed
            /\ inlist \cap out = {}
            /\ Cardinality(inlist) = Len(list)
            /\ Cardinality(out) = Len(removed)

\* A pop replies the elements it takes, and nothing else; a waiter that wakes
\* and finds no key ready takes nothing and returns to waiting.
PopStep ==
    /\ last'.op = "LPOP"
           => (\A k \in Keys \ {last'.keys[1]} : TakenBy(k) = <<>>)
              /\ LET t == TakenBy(last'.keys[1])
                 IN  last'.reply = (IF t = <<>>
                                    THEN (IF last'.args = None
                                             \/ last'.keys[1] \notin DOMAIN db
                                          THEN NullBulk ELSE NullArray)
                                    ELSE IF last'.args = None THEN Bulk(t[1])
                                    ELSE Array(BulkAll(t)))
    /\ last'.op \in ScanOps
           => LET T == {k \in Keys : TakenBy(k) # <<>>}
              IN  IF Ready(db, last'.keys) = {}
                  THEN /\ T = {}
                       /\ last'.out = "blocked"
                       /\ last'.conn \in DOMAIN waiters'
                  ELSE /\ Cardinality(T) = 1
                       /\ \A k \in T : /\ Len(TakenBy(k)) = 1
                                       /\ last'.reply = Array(<<Bulk(k), Bulk(TakenBy(k)[1])>>)

\* C21: at any time every pushed element is still in its list or has been
\* removed by exactly one LPOP or BLPOP, whose reply alone carries it; a woken
\* waiter that finds nothing returns to waiting; and when waiters are blocked
\* on "k" and "k" holds an element, a waiter (or another pop) takes it.
C21_ExactlyOnceConsumption ==
    /\ []ExactlyOnce
    /\ [][PopStep]_vars
    /\ (WaitingOn("k") # {} /\ ListOrEmpty(db, "k") # <<>>)
           ~> (WaitingOn("k") = {} \/ ListOrEmpty(db, "k") = <<>>)

\* The safety part of C21 alone.
C21_Safety == []ExactlyOnce /\ [][PopStep]_vars

====
